---------------------------- MODULE Spec2Model ----------------------------
(***************************************************************************)
(* A model of smelly_python/code_smell.py: Location, Priority, CodeSmell   *)
(* and Report.                                                             *)
(*                                                                         *)
(* Representation.  A Python str on which the code works character by      *)
(* character (the `type` of a record, the names of the enum members, the   *)
(* `symbol`) is a sequence of one-character strings; every other str is    *)
(* an atomic TLA+ string.  A raw record (a dict parsed from pylint's JSON) *)
(* is a function from the keys it has to their values.  A call that can    *)
(* raise returns [raised |-> TRUE, exc, arg] or [raised |-> FALSE, value]. *)
(***************************************************************************)
EXTENDS Integers, Sequences, FiniteSets, TLC

VARIABLES
    json_content,   \* Report.__init__'s argument: the sequence of raw records
    grade,          \* Report.__init__'s argument: the grade
    pc,             \* "convert_dict" | "raised" | "constructed"
    ret,            \* convert_dict's local list
    exc,            \* the exception that left Report.__init__, if any
    self,           \* the Report's attributes (its __dict__)
    result          \* what the last read operation returned

vars == <<json_content, grade, pc, ret, exc, self, result>>

\* Longest json_content of Spec.
MaxRecords == 3

-----------------------------------------------------------------------------
(* str methods *)

\* str.lower(), on the characters the model's strings are made of
LowerChar(c) ==
    CASE c = "E" -> "e" [] c = "R" -> "r" [] c = "O" -> "o" [] c = "W" -> "w"
      [] c = "A" -> "a" [] c = "N" -> "n" [] c = "I" -> "i" [] c = "G" -> "g"
      [] c = "F" -> "f" [] c = "C" -> "c" [] c = "T" -> "t" [] c = "V" -> "v"
      [] OTHER -> c

Lower(s) == [i \in 1..Len(s) |-> LowerChar(s[i])]

\* str.replace(old, new) for one-character old and new
Replace(s, old, new) == [i \in 1..Len(s) |-> IF s[i] = old THEN new ELSE s[i]]

Reverse(s) == [i \in 1..Len(s) |-> s[Len(s) + 1 - i]]

-----------------------------------------------------------------------------
(* class Priority(Enum) *)

ERROR      == [name |-> <<"E","R","R","O","R">>, value |-> ":red_circle:"]
WARNING    == [name |-> <<"W","A","R","N","I","N","G">>, value |-> ":orange_circle:"]
REFACTOR   == [name |-> <<"R","E","F","A","C","T","O","R">>, value |-> ":yellow_circle:"]
CONVENTION == [name |-> <<"C","O","N","V","E","N","T","I","O","N">>, value |-> ":blue_circle:"]

\* the members, in definition order (iteration order of `for prio in Priority`)
Priority == <<ERROR, WARNING, REFACTOR, CONVENTION>>

KeyError(k) == [raised |-> TRUE, exc |-> "KeyError", arg |-> k]
Returned(v) == [raised |-> FALSE, value |-> v]

\* variant with a fault: the lookup normalises the name it is given
get_priority_lowered(name) ==
    IF \E i \in 1..Len(Priority) : Lower(Priority[i].name) = Lower(name)
    THEN Returned(Priority[CHOOSE i \in 1..Len(Priority) :
                               Lower(Priority[i].name) = Lower(name)])
    ELSE KeyError(name)

\* {prio.name.lower(): prio for prio in Priority}[name]
get_priority(name) ==
    IF \E i \in 1..Len(Priority) : Lower(Priority[i].name) = name
    THEN Returned(Priority[CHOOSE i \in 1..Len(Priority) :
                               Lower(Priority[i].name) = name])
    ELSE KeyError(name)

-----------------------------------------------------------------------------
(* class Location *)

LocationKeys == <<"module", "obj", "line", "column", "endLine", "path">>

\* the first subscript data[k] of Location.__init__ that fails
FirstMissing(data, keys) ==
    keys[CHOOSE i \in 1..Len(keys) :
            /\ keys[i] \notin DOMAIN data
            /\ \A j \in 1..(i - 1) : keys[j] \in DOMAIN data]

Location(data) ==
    IF \E i \in 1..Len(LocationKeys) : LocationKeys[i] \notin DOMAIN data
    THEN KeyError(FirstMissing(data, LocationKeys))
    ELSE Returned([module        |-> data["module"],
                   python_object |-> data["obj"],
                   line          |-> data["line"],
                   column        |-> data["column"],
                   end_line      |-> data["endLine"],
                   path          |-> data["path"]])

\* an f-string is the sequence of its pieces
Location_repr(loc) ==
    <<"in ", loc.module, " on line ", loc.line, " at ", loc.column>>

Location_str(loc) ==
    <<"in ", loc.module, " on line ", loc.line, " at ", loc.column>>

-----------------------------------------------------------------------------
(* class CodeSmell *)

CodeSmell(data) ==
    IF "type" \notin DOMAIN data THEN KeyError("type")
    ELSE LET prio == get_priority(data["type"]) IN
    IF prio.raised THEN prio
    ELSE LET loc == Location(data) IN
    IF loc.raised THEN loc
    ELSE IF "symbol" \notin DOMAIN data THEN KeyError("symbol")
    ELSE IF "message" \notin DOMAIN data THEN KeyError("message")
    ELSE IF "message-id" \notin DOMAIN data THEN KeyError("message-id")
    ELSE Returned([type       |-> prio.value,
                   location   |-> loc.value,
                   symbol     |-> data["symbol"],
                   message    |-> data["message"],
                   message_id |-> data["message-id"]])

CodeSmell_repr(smell) ==
    <<Lower(smell.type.name), " ", Location_repr(smell.location),
      " with reason: ", smell.message>>

CodeSmell_str(smell) ==
    <<Lower(smell.type.name), " ", Location_str(smell.location),
      " with reason: ", smell.message>>

\* variant with a fault: the list of known types lacks ERROR
types_without_error == <<CONVENTION, REFACTOR, WARNING>>

\* the local list of severity()
types == <<CONVENTION, REFACTOR, WARNING, ERROR>>

\* list.index: the 0-based position of the first element equal to x
Index(list, x) ==
    (CHOOSE i \in 1..Len(list) :
        list[i] = x /\ \A j \in 1..(i - 1) : list[j] # x) - 1

severity(smell) ==
    IF \E i \in 1..Len(types) : types[i] = smell.type
    THEN Index(types, smell.type)
    ELSE -1

get_readable_symbol(smell) == Replace(smell.symbol, "-", " ")


(* jsonify.  A Python value handed to json.dumps carries its type:          *)
(* [py |-> "str" | "int" | "dict" | <class name>, v |-> the value].  A dict *)
(* is the sequence of its <<key, value>> items in insertion order.  The     *)
(* JSON text is modelled by its syntax tree: [json |-> "string", v],        *)
(* [json |-> "number", v], [json |-> "object", members], members being      *)
(* the <<key, tree>> pairs in the order they are written.                   *)

PyStr(s) == [py |-> "str", v |-> s]
PyInt(n) == [py |-> "int", v |-> n]
PyDict(items) == [py |-> "dict", v |-> items]
PyObject(cls, o) == [py |-> cls, v |-> o]

\* o.__dict__: the instance attributes in the order __init__ assigned them
\* (only CodeSmell and Location instances reach the default hook)
vars_of(o) ==
    IF o.py = "CodeSmell"
    THEN << <<"type", PyObject("Priority", o.v.type)>>,
            <<"location", PyObject("Location", o.v.location)>>,
            <<"symbol", PyStr(o.v.symbol)>>,
            <<"message", PyStr(o.v.message)>>,
            <<"message_id", PyStr(o.v.message_id)>> >>
    ELSE << <<"module", PyStr(o.v.module)>>,
            <<"python_object", PyStr(o.v.python_object)>>,
            <<"line", PyInt(o.v.line)>>,
            <<"column", PyInt(o.v.column)>>,
            <<"end_line", PyInt(o.v.end_line)>>,
            <<"path", PyStr(o.v.path)>> >>

\* d[k] = v in a dict display: an existing key keeps its place
DictSet(items, k, v) ==
    IF \E i \in 1..Len(items) : items[i][1] = k
    THEN [i \in 1..Len(items) |-> IF items[i][1] = k THEN <<k, v>> ELSE items[i]]
    ELSE Append(items, <<k, v>>)

\* variant with a fault: the type is rendered by its name as the enum spells it
json_default_enum_name(o, smell) ==
    PyDict(DictSet(DictSet(vars_of(o),
                           "severity", PyInt(severity(smell))),
                   "type", PyStr(smell.type.name)))

\* the lambda given as `default`: {**o.__dict__, 'severity': ..., 'type': ...}
\* (self is the CodeSmell jsonify was called on, whatever o is)
json_default(o, smell) ==
    PyDict(DictSet(DictSet(vars_of(o),
                           "severity", PyInt(severity(smell))),
                   "type", PyStr(Lower(smell.type.name))))

\* json.dumps(value, default=...): the encoder calls default on every value
\* that is no str, int or dict, and encodes what default returns
RECURSIVE json_dumps(_, _)
json_dumps(value, smell) ==
    CASE value.py = "str" -> [json |-> "string", v |-> value.v]
      [] value.py = "int" -> [json |-> "number", v |-> value.v]
      [] value.py = "dict" ->
            [json    |-> "object",
             members |-> [i \in 1..Len(value.v) |->
                            <<value.v[i][1], json_dumps(value.v[i][2], smell)>>]]
      [] OTHER -> json_dumps(json_default(value, smell), smell)

jsonify(smell) == json_dumps(PyObject("CodeSmell", smell), smell)

\* json.loads of that text: an object becomes a dict (a repeated key keeps
\* its last value), a string a str, a number an int
RECURSIVE json_loads(_)
json_loads(tree) ==
    IF tree.json = "object"
    THEN LET m == tree.members
             Last(k) == CHOOSE i \in 1..Len(m) :
                            m[i][1] = k /\ \A j \in (i + 1)..Len(m) : m[j][1] # k
         IN [k \in {m[i][1] : i \in 1..Len(m)} |-> json_loads(m[Last(k)][2])]
    ELSE tree.v

-----------------------------------------------------------------------------
(* class Report *)

\* list.sort's stable ascending sort, as insertion: x goes behind every
\* element whose key is not greater than its own
Insert(list, x) ==
    LET after == {i \in 1..Len(list) : severity(list[i]) > severity(x)}
        k == IF after = {} THEN Len(list) + 1
             ELSE CHOOSE i \in after : \A j \in after : i <= j
    IN SubSeq(list, 1, k - 1) \o <<x>> \o SubSeq(list, k, Len(list))

RECURSIVE StableSort(_)
StableSort(list) ==
    IF list = <<>> THEN <<>>
    ELSE Insert(StableSort(SubSeq(list, 1, Len(list) - 1)), list[Len(list)])

\* variant with a fault: reverse=True is missing
sorted_ascending(list) == StableSort(list)

\* variant with a fault: sorted(...) followed by reverse()
sorted_then_reversed(list) == Reverse(StableSort(list))

\* sorted(ret, key=lambda s: s.severity(), reverse=True): list.sort reverses
\* the list, sorts it stably in ascending order and reverses it again
sorted_by_severity(list) == Reverse(StableSort(Reverse(list)))

key_func(k) == k.location.path

RECURSIVE GroupFrom(_, _, _)
GroupFrom(list, i, groups) ==
    IF i > Len(list) THEN groups
    ELSE IF groups # <<>> /\ key_func(groups[Len(groups)][1]) = key_func(list[i])
         THEN GroupFrom(list, i + 1,
                        [groups EXCEPT ![Len(groups)] = Append(@, list[i])])
         ELSE GroupFrom(list, i + 1, Append(groups, <<list[i]>>))

\* variant with a fault: one group per distinct path, in order of first occurrence
groupby_distinct(list) ==
    LET first == {i \in 1..Len(list) :
                     \A j \in 1..(i - 1) : key_func(list[j]) # key_func(list[i])}
        RECURSIVE Collect(_, _)
        Collect(i, groups) ==
            IF i > Len(list) THEN groups
            ELSE IF i \in first
                 THEN Collect(i + 1, Append(groups,
                        SelectSeq(list, LAMBDA s : key_func(s) = key_func(list[i]))))
                 ELSE Collect(i + 1, groups)
    IN Collect(1, <<>>)

\* variant with a fault: an element whose key differs from the current
\* group's joins it all the same
groupby_one_run(list) == IF list = <<>> THEN <<>> ELSE <<list>>

\* [list(value) for _, value in groupby(code_smells, key_func)]: a new group
\* starts whenever the key differs from the key of the group being filled
groupby(list) == GroupFrom(list, 1, <<>>)

-----------------------------------------------------------------------------
(* The raw records the model feeds to the constructors *)

Keys == {"type", "symbol", "message", "message-id", "module", "obj",
         "line", "column", "endLine", "path"}

ValidTypeNames == { <<"e","r","r","o","r">>,
                    <<"w","a","r","n","i","n","g">>,
                    <<"r","e","f","a","c","t","o","r">>,
                    <<"c","o","n","v","e","n","t","i","o","n">> }

OtherTypeNames == { <<"E","R","R","O","R">>,
                    <<"E","r","r","o","r">>,
                    <<"i","n","f","o">> }

Symbols == { <<"n","o","-","s","e","l","f","-","u","s","e">>,
             <<"e","v","a","l">> }

Paths == {"a.py", "b.py"}

Grades == {"7.50", "10.00"}

Lines == {3, 7}

RawRecord(t, sym, path, line) ==
    ("type" :> t) @@ ("symbol" :> sym) @@ ("message" :> "msg")
    @@ ("message-id" :> "W0612") @@ ("module" :> "mod") @@ ("obj" :> "f")
    @@ ("line" :> line) @@ ("column" :> 4) @@ ("endLine" :> line + 1)
    @@ ("path" :> path)

Without(data, keys) == [k \in (DOMAIN data) \ keys |-> data[k]]

\* records of Spec: the four types, errors in both files, and a record
\* without its path
ReportRecords ==
    {RawRecord(<<"e","r","r","o","r">>,
               <<"n","o","-","s","e","l","f","-","u","s","e">>, p, 3) : p \in Paths}
    \cup {RawRecord(<<"w","a","r","n","i","n","g">>, <<"e","v","a","l">>, "a.py", 7),
          RawRecord(<<"r","e","f","a","c","t","o","r">>, <<"e","v","a","l">>, "b.py", 7),
          RawRecord(<<"c","o","n","v","e","n","t","i","o","n">>, <<"e","v","a","l">>, "a.py", 3)}
    \cup {Without(RawRecord(<<"e","r","r","o","r">>, <<"e","v","a","l">>, "a.py", 7),
                  {"path"})}

\* records of SpecSmell: every type name with every set of keys left out,
\* and the complete records in every file and line
SmellRecords ==
    {Without(RawRecord(t, sym, "a.py", 3), missing) :
        t \in ValidTypeNames \cup OtherTypeNames, sym \in Symbols,
        missing \in SUBSET Keys}
    \cup {RawRecord(t, sym, p, l) :
        t \in ValidTypeNames \cup OtherTypeNames, sym \in Symbols,
        p \in Paths, l \in Lines}

-----------------------------------------------------------------------------
(* The state machine: Report(json_content, grade), then the read operations *)

NoException == [raised |-> FALSE]
NoAttributes == <<>>
NoResult == [op |-> "none"]

Init ==
    /\ json_content \in UNION {[1..n -> ReportRecords] : n \in 0..MaxRecords}
    /\ grade \in Grades
    /\ pc = "convert_dict"
    /\ ret = <<>>
    /\ exc = NoException
    /\ self = NoAttributes
    /\ result = NoResult

InitSmell ==
    /\ json_content \in {<<d>> : d \in SmellRecords}
    /\ grade \in {"10.00"}
    /\ pc = "convert_dict"
    /\ ret = <<>>
    /\ exc = NoException
    /\ self = NoAttributes
    /\ result = NoResult

\* one iteration of convert_dict's loop: ret.append(CodeSmell(smell))
convert_dict_append ==
    /\ pc = "convert_dict"
    /\ Len(ret) < Len(json_content)
    /\ LET made == CodeSmell(json_content[Len(ret) + 1]) IN
        /\ ~made.raised
        /\ ret' = Append(ret, made.value)
    /\ UNCHANGED <<json_content, grade, pc, exc, self, result>>

\* variant with a fault: the records converted so far are kept as the report
convert_dict_raise_keeps_partial ==
    /\ pc = "convert_dict"
    /\ Len(ret) < Len(json_content)
    /\ LET made == CodeSmell(json_content[Len(ret) + 1]) IN
        /\ made.raised
        /\ exc' = made
    /\ pc' = "raised"
    /\ self' = [code_smells |-> sorted_by_severity(ret), grade |-> grade]
    /\ UNCHANGED <<json_content, grade, ret, result>>

\* CodeSmell(smell) raises: nothing in convert_dict or Report.__init__
\* catches it, the exception leaves the constructor and self is never bound
convert_dict_raise ==
    /\ pc = "convert_dict"
    /\ Len(ret) < Len(json_content)
    /\ LET made == CodeSmell(json_content[Len(ret) + 1]) IN
        /\ made.raised
        /\ exc' = made
    /\ pc' = "raised"
    /\ UNCHANGED <<json_content, grade, ret, self, result>>

\* the loop is over: convert_dict returns the sorted list, __init__ stores
\* it and the grade
Report_init ==
    /\ pc = "convert_dict"
    /\ Len(ret) = Len(json_content)
    /\ self' = [code_smells |-> sorted_by_severity(ret), grade |-> grade]
    /\ pc' = "constructed"
    /\ UNCHANGED <<json_content, grade, ret, exc, result>>

Called(op, i, value) == [op |-> op, index |-> i, value |-> value]

call_severity ==
    /\ pc = "constructed"
    /\ \E i \in 1..Len(self.code_smells) :
        result' = Called("severity", i, severity(self.code_smells[i]))
    /\ UNCHANGED <<json_content, grade, pc, ret, exc, self>>

\* variant with a fault: the readable symbol is stored back into the smell
call_get_readable_symbol_stores ==
    /\ pc = "constructed"
    /\ \E i \in 1..Len(self.code_smells) :
        /\ result' = Called("get_readable_symbol", i,
                            get_readable_symbol(self.code_smells[i]))
        /\ self' = [self EXCEPT !.code_smells[i].symbol =
                                    get_readable_symbol(self.code_smells[i])]
    /\ UNCHANGED <<json_content, grade, pc, ret, exc>>

call_get_readable_symbol ==
    /\ pc = "constructed"
    /\ \E i \in 1..Len(self.code_smells) :
        result' = Called("get_readable_symbol", i,
                         get_readable_symbol(self.code_smells[i]))
    /\ UNCHANGED <<json_content, grade, pc, ret, exc, self>>

call_jsonify ==
    /\ pc = "constructed"
    /\ \E i \in 1..Len(self.code_smells) :
        result' = Called("jsonify", i, jsonify(self.code_smells[i]))
    /\ UNCHANGED <<json_content, grade, pc, ret, exc, self>>

call_str ==
    /\ pc = "constructed"
    /\ \E i \in 1..Len(self.code_smells) :
        result' = Called("str", i, CodeSmell_str(self.code_smells[i]))
    /\ UNCHANGED <<json_content, grade, pc, ret, exc, self>>

call_repr ==
    /\ pc = "constructed"
    /\ \E i \in 1..Len(self.code_smells) :
        result' = Called("repr", i, CodeSmell_repr(self.code_smells[i]))
    /\ UNCHANGED <<json_content, grade, pc, ret, exc, self>>

group_by_file ==
    /\ pc = "constructed"
    /\ result' = Called("group_by_file", 0, groupby(self.code_smells))
    /\ UNCHANGED <<json_content, grade, pc, ret, exc, self>>

Next ==
    \/ convert_dict_append
    \/ convert_dict_raise
    \/ Report_init
    \/ call_severity
    \/ call_get_readable_symbol
    \/ call_jsonify
    \/ call_str
    \/ call_repr
    \/ group_by_file

Spec == Init /\ [][Next]_vars

SpecSmell == InitSmell /\ [][Next]_vars

-----------------------------------------------------------------------------
(* Properties *)

Constructed == pc = "constructed"

\* the CodeSmells of json_content in input order (when every record converts)
Converted == [i \in 1..Len(json_content) |-> CodeSmell(json_content[i]).value]

AllConvert == \A i \in 1..Len(json_content) : ~CodeSmell(json_content[i]).raised

PathsOf(list) == [i \in 1..Len(list) |-> list[i].location.path]

\* C1: code_smells is ordered by non-increasing severity() right after
\* construction and in every state a sequence of read operations reaches.
C1_SortedBySeverity ==
    Constructed =>
        \A i, j \in 1..Len(self.code_smells) :
            i < j => severity(self.code_smells[i]) >= severity(self.code_smells[j])

\* the sort had to move something, and a read operation has run since
C1_Witness ==
    /\ Constructed
    /\ Len(self.code_smells) = MaxRecords
    /\ self.code_smells # Converted
    /\ result.op = "jsonify"

\* C2: Report construction is a stable sort: one CodeSmell per input record,
\* and for each severity the CodeSmells of that severity are in input order.
C2_StableSort ==
    Constructed =>
        /\ Len(self.code_smells) = Len(json_content)
        /\ \A i \in 1..Len(self.code_smells) :
                severity(self.code_smells[i]) \in 0..3
        /\ \A sev \in 0..3 :
                SelectSeq(self.code_smells, LAMBDA s : severity(s) = sev)
                    = SelectSeq(Converted, LAMBDA s : severity(s) = sev)

\* two different records of equal severity that the sort moved in front of
\* the record before them, in their input order
C2_Witness ==
    /\ Constructed
    /\ Len(json_content) = 3
    /\ severity(Converted[2]) = severity(Converted[3])
    /\ Converted[2] # Converted[3]
    /\ severity(Converted[1]) < severity(Converted[2])
    /\ self.code_smells = <<Converted[2], Converted[3], Converted[1]>>

\* the number of CodeSmells in the first n groups
RECURSIVE SizeUpTo(_, _)
SizeUpTo(groups, n) ==
    IF n = 0 THEN 0 ELSE SizeUpTo(groups, n - 1) + Len(groups[n])

\* the group that holds position k of code_smells
GroupOf(groups, k) ==
    CHOOSE n \in 1..Len(groups) :
        SizeUpTo(groups, n - 1) < k /\ k <= SizeUpTo(groups, n)

\* C3: group_by_file returns the maximal consecutive runs of equal path:
\* [A, A, B] gives [[A,A],[B]], [A, B, A] gives [[A],[B],[A]], and two
\* CodeSmells of one path share a group iff no other path lies between them.
C3_ConsecutiveRuns ==
    (Constructed /\ result.op = "group_by_file") =>
        LET cs == self.code_smells
            groups == result.value
            paths == PathsOf(cs)
        IN /\ SizeUpTo(groups, Len(groups)) = Len(cs)
           /\ \A n \in 1..Len(groups) : Len(groups[n]) > 0
           /\ \A i, j \in 1..Len(cs) :
                (i < j /\ paths[i] = paths[j]) =>
                    (GroupOf(groups, i) = GroupOf(groups, j)
                        <=> \A m \in i..j : paths[m] = paths[i])
           /\ paths = <<"a.py", "a.py", "b.py">> =>
                [n \in 1..Len(groups) |-> PathsOf(groups[n])]
                    = << <<"a.py", "a.py">>, <<"b.py">> >>
           /\ paths = <<"a.py", "b.py", "a.py">> =>
                [n \in 1..Len(groups) |-> PathsOf(groups[n])]
                    = << <<"a.py">>, <<"b.py">>, <<"a.py">> >>

C3_Witness ==
    /\ Constructed
    /\ result.op = "group_by_file"
    /\ PathsOf(self.code_smells) = <<"a.py", "b.py", "a.py">>
    /\ Len(result.value) = 3

RECURSIVE Flatten(_)
Flatten(groups) ==
    IF groups = <<>> THEN <<>>
    ELSE Flatten(SubSeq(groups, 1, Len(groups) - 1)) \o groups[Len(groups)]

\* C10: group_by_file splits code_smells in order: the groups concatenated
\* are code_smells, no group is empty, a group has one path, adjacent groups
\* have different paths, and an empty code_smells gives no group.
C10_OrderPreservingSplit ==
    (Constructed /\ result.op = "group_by_file") =>
        LET groups == result.value IN
        /\ Flatten(groups) = self.code_smells
        /\ \A n \in 1..Len(groups) :
            /\ groups[n] # <<>>
            /\ \A k \in 1..Len(groups[n]) :
                groups[n][k].location.path = groups[n][1].location.path
        /\ \A n \in 1..(Len(groups) - 1) :
            groups[n][1].location.path # groups[n + 1][1].location.path
        /\ self.code_smells = <<>> => groups = <<>>

C10_Witness ==
    /\ Constructed
    /\ result.op = "group_by_file"
    /\ Len(result.value) = 2
    /\ Len(result.value[1]) = 2

LocationFields ==
    {"module", "python_object", "line", "column", "end_line", "path"}

\* the member of a JSON object written under key k (the last, if repeated)
Member(tree, k) ==
    tree.members[CHOOSE i \in 1..Len(tree.members) :
        /\ tree.members[i][1] = k
        /\ \A j \in (i + 1)..Len(tree.members) : tree.members[j][1] # k][2]

HasMember(tree, k) == \E i \in 1..Len(tree.members) : tree.members[i][1] = k

\* C4: the `location` entry of the jsonify() output is a nested object with
\* the six Location fields and their values, and no key of the enclosing
\* CodeSmell such as severity or type.
C4_LocationOnlyItsFields ==
    (Constructed /\ result.op = "jsonify") =>
        LET smell == self.code_smells[result.index]
            tree == result.value
        IN /\ tree.json = "object"
           /\ HasMember(tree, "location")
           /\ Member(tree, "location").json = "object"
           /\ LET loc == json_loads(Member(tree, "location")) IN
                /\ DOMAIN loc = LocationFields
                /\ loc["module"] = smell.location.module
                /\ loc["python_object"] = smell.location.python_object
                /\ loc["line"] = smell.location.line
                /\ loc["column"] = smell.location.column
                /\ loc["end_line"] = smell.location.end_line
                /\ loc["path"] = smell.location.path

\* the rank the documentation gives each Priority, told by its glyph
DocumentedRank(prio) ==
    CASE prio.value = ":blue_circle:" -> 0
      [] prio.value = ":yellow_circle:" -> 1
      [] prio.value = ":orange_circle:" -> 2
      [] prio.value = ":red_circle:" -> 3

\* the lowercase name the documentation gives each Priority, told by its glyph
DocumentedName(prio) ==
    CASE prio.value = ":blue_circle:" -> <<"c","o","n","v","e","n","t","i","o","n">>
      [] prio.value = ":yellow_circle:" -> <<"r","e","f","a","c","t","o","r">>
      [] prio.value = ":orange_circle:" -> <<"w","a","r","n","i","n","g">>
      [] prio.value = ":red_circle:" -> <<"e","r","r","o","r">>

\* C5: the parsed jsonify() output has severity = severity(), type = the
\* lowercase Priority name, and the stored symbol, message and message_id.
C5_JsonifyTopLevel ==
    (Constructed /\ result.op = "jsonify") =>
        LET smell == self.code_smells[result.index]
            tree == result.value
            parsed == json_loads(tree)
        IN /\ tree.json = "object"
           /\ {"severity", "type", "symbol", "message", "message_id"}
                \subseteq DOMAIN parsed
           /\ Member(tree, "severity").json = "number"
           /\ parsed["severity"] = severity(smell)
           /\ parsed["severity"] = DocumentedRank(smell.type)
           /\ Member(tree, "type").json = "string"
           /\ parsed["type"] \in ValidTypeNames
           /\ parsed["type"] = DocumentedName(smell.type)
           /\ Member(tree, "symbol").json = "string"
           /\ parsed["symbol"] = smell.symbol
           /\ parsed["message"] = smell.message
           /\ parsed["message_id"] = smell.message_id

C5_Witness ==
    /\ Constructed
    /\ result.op = "jsonify"
    /\ json_loads(result.value)["type"] = <<"w","a","r","n","i","n","g">>
    /\ json_loads(result.value)["severity"] = 2

\* what the documentation asks of a raw record
ValidRecord(data) ==
    /\ Keys \subseteq DOMAIN data
    /\ data["type"] \in ValidTypeNames

\* C6: CodeSmell construction succeeds iff `type` is exactly one of the four
\* lowercase names and all ten keys are present; otherwise it fails with a
\* lookup error and no CodeSmell is produced.
C6_ConstructionIff ==
    /\ \A i \in 1..Len(json_content) :
        LET made == CodeSmell(json_content[i]) IN
        /\ made.raised <=> ~ValidRecord(json_content[i])
        /\ made.raised => made.exc = "KeyError"
    /\ \A i \in 1..Len(ret) : ValidRecord(json_content[i])
    /\ pc = "raised" =>
        /\ ~ValidRecord(json_content[Len(ret) + 1])
        /\ exc.raised /\ exc.exc = "KeyError"
    /\ Constructed => \A i \in 1..Len(json_content) : ValidRecord(json_content[i])

\* a complete record whose type is spelt in upper case has been refused
C6_Witness ==
    /\ pc = "raised"
    /\ DOMAIN json_content[1] = Keys
    /\ json_content[1]["type"] = <<"E","R","R","O","R">>
    /\ ret = <<>>

\* C7: Report construction is all-or-nothing: when any record fails to
\* convert the exception reaches the caller and no Report holds the records
\* converted before it; a Report exists only when every record converts.
C7_AllOrNothing ==
    /\ pc = "raised" => (DOMAIN self = {} /\ exc.raised /\ ~AllConvert)
    /\ ~AllConvert => (~Constructed /\ DOMAIN self = {})
    /\ Constructed =>
        /\ AllConvert
        /\ DOMAIN self = {"code_smells", "grade"}
        /\ Len(self.code_smells) = Len(json_content)

\* the failing record came after records that had converted
C7_Witness ==
    /\ pc = "raised"
    /\ Len(ret) >= 2
    /\ "path" \notin DOMAIN json_content[Len(ret) + 1]

\* C8: severity() is CONVENTION=0, REFACTOR=1, WARNING=2, ERROR=3, and is
\* never -1 for a CodeSmell that construction produced.
C8_SeverityRank ==
    /\ \A i \in 1..Len(ret) :
        /\ severity(ret[i]) \in 0..3
        /\ severity(ret[i]) = DocumentedRank(ret[i].type)
    /\ (Constructed /\ result.op = "severity") =>
        /\ result.value \in 0..3
        /\ result.value = DocumentedRank(self.code_smells[result.index].type)

C8_Witness ==
    /\ Constructed
    /\ result.op = "severity"
    /\ result.value = 3
    /\ self.code_smells[result.index].type = ERROR

\* C9: the read operations change nothing: code_smells, the grade (the one
\* given to the constructor) and every field of every CodeSmell stay as
\* they are, and a repeated call returns the same result.
C9_ReadsArePure ==
    /\ [](Constructed => self.grade = grade)
    /\ [][Constructed =>
            /\ self' = self
            /\ pc' = pc
            /\ json_content' = json_content
            /\ grade' = grade
            /\ (result.op # "none" /\ result'.op = result.op
                    /\ result'.index = result.index)
                => result'.value = result.value]_vars

\* get_readable_symbol has returned the symbol with spaces while the stored
\* symbol keeps its hyphens
C9_Witness ==
    /\ Constructed
    /\ result.op = "get_readable_symbol"
    /\ result.value = <<"n","o"," ","s","e","l","f"," ","u","s","e">>
    /\ self.code_smells[result.index].symbol
            = <<"n","o","-","s","e","l","f","-","u","s","e">>
    /\ self.grade = grade

=============================================================================
